---------------------------- MODULE Spec2Model ----------------------------
(***************************************************************************)
(* Model of the IO-Link master of IOLink.cpp: the frame codec              *)
(* (buildIOLinkMessage / parseIOLinkMessage), the device registry          *)
(* (m_devices), port activation, the send / receive channel operations     *)
(* with the busy-poll timeout loop, and event dispatch.                    *)
(*                                                                         *)
(* Two specifications share the module:                                    *)
(*   SpecCodec  - the frame codec as a pure function, applied to inputs    *)
(*                drawn by Init and to frames tampered with on the line;   *)
(*   Spec       - the master object driven by an application that calls    *)
(*                its operations, a serial line on which bytes arrive and  *)
(*                a millisecond counter that advances.                     *)
(***************************************************************************)
EXTENDS Integers, Sequences, FiniteSets, TLC

VARIABLES
    \* ---- codec harness (SpecCodec) ----
    cType,          \* message type handed to buildIOLinkMessage
    cPayload,       \* payload handed to buildIOLinkMessage
    frame,          \* byte sequence under test (rawData of parseIOLinkMessage)
    tamper,         \* what happened to the frame on the line
    parsed,         \* what parseIOLinkMessage returned for frame
    cpc,            \* harness position: "input", "built", "parsed"
    \* ---- master (Spec) ----
    m_devices,      \* std::vector<std::shared_ptr<IOLinkDevice>> m_devices
    m_eventCallback,\* TRUE iff a callback is registered (non-null)
    rx,             \* bytes the serial driver holds (BytesAvailable / ReadChar)
    clock,          \* Milliseconds(), a uint32_t kept as two 16-bit limbs
    uptime,         \* milliseconds elapsed since start, not wrapping (ghost)
    rcv,            \* the receiveMessage call in progress (its locals and pc)
    data,           \* the caller's output vector of receiveMessage
    lastOp,         \* the last completed operation: arguments, result, I/O
    present,        \* ports that physically have a device attached
    hist            \* ghost history of scans, identification, deactivation

codecVars  == <<cType, cPayload, frame, tamper, parsed, cpc>>
masterVars == <<m_devices, m_eventCallback, rx, clock, uptime, rcv, data,
                lastOp, present, hist>>
vars == <<cType, cPayload, frame, tamper, parsed, cpc,
          m_devices, m_eventCallback, rx, clock, uptime, rcv, data,
          lastOp, present, hist>>

(***************************************************************************)
(* Bounds of the model.                                                    *)
(***************************************************************************)
MaxLen == 2          \* longest enumerated payload handed to the encoder
MaxRaw == 5          \* longest arbitrary byte sequence handed to the decoder

(***************************************************************************)
(* Bytes.                                                                  *)
(***************************************************************************)
ByteMod == 256
MaxPayloadLen == 255

\* Bitwise XOR of two uint8_t values (operator ^ of the source).
RECURSIVE Xor(_, _)
Xor(a, b) ==
    IF a = 0 THEN b
    ELSE IF b = 0 THEN a
    ELSE (((a % 2) + (b % 2)) % 2) + (2 * Xor(a \div 2, b \div 2))

\* 2^b for a bit position 0..7.
RECURSIVE Pow2(_)
Pow2(b) == IF b = 0 THEN 1 ELSE 2 * Pow2(b - 1)

\* The byte v with bit b inverted (line noise).
FlipBitOf(v, b) == Xor(v, Pow2(b))

\* XOR of s[lo..hi]; halving keeps the evaluation depth logarithmic for a
\* 255-byte payload (XOR is associative, so the value is that of the loop).
RECURSIVE XorRange(_, _, _)
XorRange(s, lo, hi) ==
    IF lo > hi THEN 0
    ELSE IF lo = hi THEN s[lo]
    ELSE LET mid == (lo + hi) \div 2
         IN  Xor(XorRange(s, lo, mid), XorRange(s, mid + 1, hi))

\* checksum ^= byte for every byte of a vector, starting from acc.
XorFold(acc, s) == Xor(acc, XorRange(s, 1, Len(s)))

(***************************************************************************)
(* enum class MessageType, enum class ErrorCode                            *)
(***************************************************************************)
MessageType == {"PROCESS_DATA", "PARAMETER", "DIAGNOSTIC", "EVENT"}
ErrorCode   == {"NONE", "COMMUNICATION_ERROR", "DEVICE_ERROR", "TIMEOUT",
                "INVALID_PARAMETER", "NOT_SUPPORTED"}
OperationMode == {"SIO", "COM1", "COM2", "COM3"}

(***************************************************************************)
(* Frame codec.                                                            *)
(***************************************************************************)
START_BYTE == 165    \* 0xA5

\* A switch whose DIAGNOSTIC and EVENT cases are exchanged.
TypeValueMut(type) ==
    CASE type = "PROCESS_DATA" -> 1
      [] type = "PARAMETER"    -> 2
      [] type = "DIAGNOSTIC"   -> 4
      [] type = "EVENT"        -> 3
      [] OTHER                 -> 1

\* switch (type) of buildIOLinkMessage.
TypeValue(type) ==
    CASE type = "PROCESS_DATA" -> 1
      [] type = "PARAMETER"    -> 2
      [] type = "DIAGNOSTIC"   -> 3
      [] type = "EVENT"        -> 4
      [] OTHER                 -> 1

\* static_cast<uint8_t>(payload.size())
LengthByte(payload) == Len(payload) % ByteMod

\* An encoder whose checksum leaves the LENGTH byte out.
buildIOLinkMessageMut(type, payload) ==
    LET typeValue == TypeValue(type)
        checksum  == XorFold(Xor(START_BYTE, typeValue), payload)
    IN  <<START_BYTE, typeValue, LengthByte(payload)>> \o payload \o <<checksum>>

buildIOLinkMessage(type, payload) ==
    LET typeValue == TypeValue(type)
        checksum  == XorFold(Xor(Xor(START_BYTE, typeValue), LengthByte(payload)),
                             payload)
    IN  <<START_BYTE, typeValue, LengthByte(payload)>> \o payload \o <<checksum>>

\* switch (typeValue) of parseIOLinkMessage; "UNSET" stands for the default
\* branch, which returns before the out-parameter is assigned.
TypeOfValue(typeValue) ==
    CASE typeValue = 1 -> "PROCESS_DATA"
      [] typeValue = 2 -> "PARAMETER"
      [] typeValue = 3 -> "DIAGNOSTIC"
      [] typeValue = 4 -> "EVENT"
      [] OTHER         -> "UNSET"

\* rawData.size() < 4
TooShort(rawData) == Len(rawData) < 4

\* rawData.size() < length + 4
LengthExceedsMut(rawData, length) == Len(rawData) < length + 3
LengthExceeds(rawData, length) == Len(rawData) < length + 4

\* checksum != calculatedChecksum
ChecksumMismatch(checksum, calculated) == checksum # calculated

\* rawData[i] (0-based in the source, 1-based here).  An index past the end is
\* undefined behaviour in the source; the element read is then reported as 0
\* and the access is visible in the "last" field of the parse result.
ByteAt(rawData, i) == IF i \in 1..Len(rawData) THEN rawData[i] ELSE 0

\* parseIOLinkMessage: the result, the two out-parameters as the function
\* leaves them, and "last", the highest position of rawData it accessed.
parseIOLinkMessage(rawData) ==
    IF TooShort(rawData)
    THEN [result |-> "COMMUNICATION_ERROR", type |-> "UNSET",
          payload |-> <<>>, last |-> 0]
    ELSE IF ByteAt(rawData, 1) # START_BYTE
    THEN [result |-> "COMMUNICATION_ERROR", type |-> "UNSET",
          payload |-> <<>>, last |-> 1]
    ELSE LET typeValue == ByteAt(rawData, 2)
             type      == TypeOfValue(typeValue)
         IN
         IF type = "UNSET"
         THEN [result |-> "COMMUNICATION_ERROR", type |-> "UNSET",
               payload |-> <<>>, last |-> 2]
         ELSE LET length == ByteAt(rawData, 3) IN
              IF LengthExceeds(rawData, length)
              THEN [result |-> "COMMUNICATION_ERROR", type |-> type,
                    payload |-> <<>>, last |-> 3]
              ELSE LET payload    == [i \in 1..length |-> ByteAt(rawData, 3 + i)]
                       checksum   == ByteAt(rawData, 4 + length)
                       calculated == XorFold(Xor(Xor(START_BYTE, typeValue),
                                                 length), payload)
                   IN  [result  |-> IF ChecksumMismatch(checksum, calculated)
                                    THEN "COMMUNICATION_ERROR" ELSE "NONE",
                        type    |-> type,
                        payload |-> payload,
                        last    |-> 4 + length]

(***************************************************************************)
(* Inputs of the codec harness.                                            *)
(***************************************************************************)
\* Payload bytes: 0x00, 0x12, 0x34, 0xA4, 0xA5, 0xFF.
PayloadBytes == {0, 18, 52, 164, 165, 255}
\* Line bytes of arbitrary decoder inputs: 0x00, 0x01, 0x05, 0xA4, 0xA5.
RawBytes == {0, 1, 5, 164, 165}

SeqsUpTo(S, n) == UNION {[1..k -> S] : k \in 0..n}

\* The longest payload the LENGTH byte can declare.
LongPayload == [i \in 1..MaxPayloadLen |-> 18]

Payloads  == SeqsUpTo(PayloadBytes, MaxLen) \cup {LongPayload}
RawInputs == SeqsUpTo(RawBytes, MaxRaw)

NoParse == [result |-> "PENDING", type |-> "UNSET", payload |-> <<>>, last |-> 0]
NoTamper == [kind |-> "none", idx |-> 0, bit |-> 0]


(***************************************************************************)
(* uint32_t values, kept as <<high, low>> 16-bit limbs.                    *)
(***************************************************************************)
Limb == 65536

U32(n) == <<(n \div Limb) % Limb, n % Limb>>

\* a + n for a small n, modulo 2^32.
Add32(a, n) ==
    LET lo == a[2] + n
    IN  <<(a[1] + (lo \div Limb)) % Limb, lo % Limb>>

\* a - b, modulo 2^32 (unsigned subtraction).
Sub32(a, b) ==
    LET lo     == a[2] - b[2]
        borrow == IF lo < 0 THEN 1 ELSE 0
    IN  <<(a[1] - b[1] - borrow + (2 * Limb)) % Limb, (lo + Limb) % Limb>>

Lt32(a, b) == a[1] < b[1] \/ (a[1] = b[1] /\ a[2] < b[2])

\* 0xFFFFFFFE: two milliseconds before the counter wraps.
NearWrap == <<Limb - 1, Limb - 2>>

(***************************************************************************)
(* Master: constants of the state.                                         *)
(***************************************************************************)
MaxPort    == 1      \* port arguments are drawn from 0..MaxPort
MaxRx      == 5      \* bytes that arrive between two calls or during a receive
MaxTimeout == 2      \* longest timeout handed to receiveMessage
MaxUptime  == 2      \* no receive call is still polling later than this
MaxLine    == 9      \* bytes a device streams at one receive call

Ports == 0..MaxPort
\* IOLinkMaster drives one SerialDriver: one connector a device can be on.
Connectors == {0}

\* std::make_shared<IOLinkDevice>(1, 0x12345678, 0x87654321)
DummyDevice == [deviceId  |-> 1,
                vendorId  |-> <<4660, 22136>>,
                productId |-> <<34661, 17185>>]
\* nullptr
NullDevice == [deviceId |-> 0, vendorId |-> <<0, 0>>, productId |-> <<0, 0>>]

IdleRcv == [pc |-> "idle", port |-> 0, type |-> "PROCESS_DATA",
            timeout |-> <<0, 0>>, startTime |-> <<0, 0>>, startUp |-> 0,
            rawData |-> <<>>, nread |-> 0, polls |-> 0]

\* The record of a completed operation.
Op(op, port, size, result) ==
    [op |-> op, port |-> port, size |-> size, result |-> result,
     type |-> "PROCESS_DATA", sent |-> <<>>, nread |-> 0, raw |-> <<>>,
     dev |-> NullDevice, cbs |-> <<>>, elapsed |-> 0, timeout |-> <<0, 0>>,
     env |-> FALSE, mode |-> "SIO", flag |-> FALSE, value |-> 0,
     polls |-> 0]

\* lastReg / prevReg: the registry as the latest scan and the scan before it
\* left it; setupChanged: a device was attached or removed since the latest
\* scan; identified: ports whose identification response was received in the
\* latest scan or activation; deactivated: ports deactivated with success and
\* not activated with success since.
NoHist == [scans |-> 0, lastReg |-> <<>>, prevReg |-> <<>>,
           setupChanged |-> FALSE, identified |-> {}, deactivated |-> {}]

InitCodecIdle ==
    /\ cType = "PROCESS_DATA" /\ cPayload = <<>> /\ frame = <<>>
    /\ tamper = NoTamper /\ parsed = NoParse /\ cpc = "off"

InitMasterIdle ==
    /\ m_devices = <<>>
    /\ m_eventCallback = FALSE
    /\ rx = <<>>
    /\ clock = <<0, 0>>
    /\ uptime = 0
    /\ rcv = IdleRcv
    /\ data = <<>>
    /\ lastOp = Op("none", 0, 0, "NONE")
    /\ present = {}
    /\ hist = NoHist

(***************************************************************************)
(* SpecCodec: the codec applied to drawn inputs.                           *)
(***************************************************************************)
InitCodec ==
    /\ InitMasterIdle
    /\ tamper = NoTamper
    /\ parsed = NoParse
    /\ \/ /\ cpc = "input"
          /\ cType \in MessageType
          /\ cPayload \in Payloads
          /\ frame = <<>>
       \/ /\ cpc = "raw"
          /\ cType = "PROCESS_DATA"
          /\ cPayload = <<>>
          /\ frame \in RawInputs

\* encode: the frame is what buildIOLinkMessage returns.
Build ==
    /\ cpc = "input"
    /\ frame' = buildIOLinkMessage(cType, cPayload)
    /\ cpc' = "built"
    /\ UNCHANGED <<cType, cPayload, tamper, parsed>>
    /\ UNCHANGED masterVars

\* one bit of one byte of the encoded frame is inverted on the line.
FlipBit ==
    /\ cpc = "built" /\ tamper.kind = "none"
    /\ \E i \in 1..Len(frame), b \in 0..7 :
          /\ frame' = [frame EXCEPT ![i] = FlipBitOf(frame[i], b)]
          /\ tamper' = [kind |-> "flip", idx |-> i, bit |-> b]
    /\ UNCHANGED <<cType, cPayload, parsed, cpc>>
    /\ UNCHANGED masterVars

\* the tail of the encoded frame is lost on the line.
Truncate ==
    /\ cpc = "built" /\ tamper.kind = "none"
    /\ \E n \in 0..(Len(frame) - 1) :
          /\ frame' = SubSeq(frame, 1, n)
          /\ tamper' = [kind |-> "trunc", idx |-> n, bit |-> 0]
    /\ UNCHANGED <<cType, cPayload, parsed, cpc>>
    /\ UNCHANGED masterVars

\* a header byte of the encoded frame is replaced on the line.
SetByte ==
    /\ cpc = "built" /\ tamper.kind = "none"
    /\ \E i \in 1..3, v \in PayloadBytes :
          /\ frame[i] # v
          /\ frame' = [frame EXCEPT ![i] = v]
          /\ tamper' = [kind |-> "set", idx |-> i, bit |-> 0]
    /\ UNCHANGED <<cType, cPayload, parsed, cpc>>
    /\ UNCHANGED masterVars

\* a byte follows the encoded frame on the line.
AppendByte ==
    /\ cpc = "built" /\ tamper.kind = "none"
    /\ \E v \in PayloadBytes :
          /\ frame' = Append(frame, v)
          /\ tamper' = [kind |-> "append", idx |-> Len(frame) + 1, bit |-> 0]
    /\ UNCHANGED <<cType, cPayload, parsed, cpc>>
    /\ UNCHANGED masterVars

\* decode: parseIOLinkMessage is applied to the frame as it arrived.
Parse ==
    /\ cpc \in {"built", "raw"}
    /\ parsed' = parseIOLinkMessage(frame)
    /\ cpc' = IF cpc = "raw" THEN "rawparsed" ELSE "parsed"
    /\ UNCHANGED <<cType, cPayload, frame, tamper>>
    /\ UNCHANGED masterVars

NextCodec ==
    \/ Build
    \/ FlipBit
    \/ Truncate
    \/ SetByte
    \/ AppendByte
    \/ Parse

SpecCodec == InitCodec /\ [][NextCodec]_vars


(***************************************************************************)
(* Spec: the master.  Operations run to completion on the caller's thread: *)
(* no operation starts while a receiveMessage call is in progress.  While  *)
(* receiveMessage polls, bytes may arrive and the millisecond counter      *)
(* advances.                                                               *)
(***************************************************************************)
Idle == rcv.pc = "idle"

\* port >= m_devices.size()
PortOutOfRangeMut(port, size) == port > size
PortOutOfRange(port, size) == port >= size

\* The wake-up pattern: for (i = 0; i < 10; i++) SendChar(0x00).
WakeupCount == 10
\* A wake-up of 0xFF bytes.
WakeupPatternMut == [i \in 1..WakeupCount |-> 255]
WakeupPattern == [i \in 1..WakeupCount |-> 0]

\* Payloads the application sends.
SendPayloads == {<<>>, <<18>>}
\* The operation modes and message types the application asks for.
ActivateModes == {"SIO", "COM2"}
ExchangeTypes == {"PROCESS_DATA", "EVENT"}

\* Timeouts the application asks for.
Timeouts == {U32(t) : t \in 0..MaxTimeout}

\* The event frame a device sends, A5 04 01 12 B2, and its two halves.
EventFrame == buildIOLinkMessage("EVENT", <<18>>)
EventHead  == SubSeq(EventFrame, 1, 2)
EventTail  == SubSeq(EventFrame, 3, Len(EventFrame))

\* What a device puts on the line in one burst: a process-data frame, an
\* event frame, and the event frame in two bursts (the second half alone
\* is a byte sequence that fails decoding).
LineChunks ==
    {buildIOLinkMessage("PROCESS_DATA", <<>>), EventFrame, EventHead, EventTail}

\* activatePort
activatePort(port, mode) ==
    /\ Idle
    /\ IF PortOutOfRange(port, Len(m_devices))
       THEN /\ lastOp' = Op("activatePort", port, Len(m_devices),
                            "INVALID_PARAMETER")
            /\ hist' = hist
       ELSE /\ lastOp' = [Op("activatePort", port, Len(m_devices), "NONE")
                            EXCEPT !.sent = WakeupPattern,
                                   \* env: no device attached, a silent line
                                   !.env = (present = {} /\ rx = <<>>)]
            \* no byte is read: no identification response is received
            /\ hist' = [hist EXCEPT !.identified = @ \ {port},
                                    !.deactivated = @ \ {port}]
    /\ UNCHANGED <<m_devices, m_eventCallback, rx, clock, uptime, rcv, data,
                   present>>
    /\ UNCHANGED codecVars

\* A deactivatePort that refuses a port it has already deactivated.
deactivatePortMut(port) ==
    /\ Idle
    /\ IF PortOutOfRange(port, Len(m_devices))
       THEN /\ lastOp' = Op("deactivatePort", port, Len(m_devices),
                            "INVALID_PARAMETER")
            /\ hist' = hist
       ELSE /\ lastOp' = [Op("deactivatePort", port, Len(m_devices),
                             IF port \in hist.deactivated
                             THEN "DEVICE_ERROR" ELSE "NONE")
                            EXCEPT !.env = port \in hist.deactivated]
            /\ hist' = [hist EXCEPT !.deactivated = @ \cup {port}]
    /\ UNCHANGED <<m_devices, m_eventCallback, rx, clock, uptime, rcv, data,
                   present>>
    /\ UNCHANGED codecVars

\* deactivatePort: the port check, then nothing but the return.
deactivatePort(port) ==
    /\ Idle
    /\ IF PortOutOfRange(port, Len(m_devices))
       THEN /\ lastOp' = Op("deactivatePort", port, Len(m_devices),
                            "INVALID_PARAMETER")
            /\ hist' = hist
       ELSE /\ lastOp' = [Op("deactivatePort", port, Len(m_devices), "NONE")
                            \* env: the port was deactivated already
                            EXCEPT !.env = port \in hist.deactivated]
            /\ hist' = [hist EXCEPT !.deactivated = @ \cup {port}]
    /\ UNCHANGED <<m_devices, m_eventCallback, rx, clock, uptime, rcv, data,
                   present>>
    /\ UNCHANGED codecVars

\* A scan that forgets m_devices.clear().
ScanRegistryMut(devices) == Append(devices, DummyDevice)
\* m_devices.clear(); m_devices.push_back(dummyDevice);
ScanRegistry(devices) == Append(<<>>, DummyDevice)

\* scanForDevices
scanForDevices ==
    /\ Idle
    /\ m_devices' = ScanRegistry(m_devices)
    \* env: a scan before this one, and the same physical setup since
    /\ lastOp' = [Op("scanForDevices", 0, Len(m_devices), "NONE")
                    EXCEPT !.env = (hist.scans >= 1 /\ ~hist.setupChanged)]
    \* no byte is sent or read: no identification response is received
    /\ hist' = [hist EXCEPT
                  !.scans = IF @ < 2 THEN @ + 1 ELSE @,
                  !.prevReg = hist.lastReg,
                  !.lastReg = m_devices',
                  !.setupChanged = FALSE,
                  !.identified = {}]
    /\ UNCHANGED <<m_eventCallback, rx, clock, uptime, rcv, data, present>>
    /\ UNCHANGED codecVars

\* getDevice: the value returned.
DeviceAt(devices, port) ==
    IF port < Len(devices) THEN devices[port + 1] ELSE NullDevice

\* A getDevice that makes an empty entry for a port it does not know.
getDeviceMut(port) ==
    /\ Idle
    /\ lastOp' = [Op("getDevice", port, Len(m_devices), "NONE")
                    EXCEPT !.dev = DeviceAt(m_devices, port)]
    /\ m_devices' = IF port < Len(m_devices) THEN m_devices
                    ELSE Append(m_devices, NullDevice)
    /\ UNCHANGED <<m_eventCallback, rx, clock, uptime, rcv, data, present,
                   hist>>
    /\ UNCHANGED codecVars

\* getDevice
getDevice(port) ==
    /\ Idle
    /\ lastOp' = [Op("getDevice", port, Len(m_devices), "NONE")
                    EXCEPT !.dev = DeviceAt(m_devices, port)]
    /\ UNCHANGED <<m_devices, m_eventCallback, rx, clock, uptime, rcv, data,
                   present, hist>>
    /\ UNCHANGED codecVars

\* sendMessage
sendMessage(port, type, payload) ==
    /\ Idle
    /\ IF PortOutOfRange(port, Len(m_devices))
       THEN lastOp' = [Op("sendMessage", port, Len(m_devices),
                          "INVALID_PARAMETER") EXCEPT !.type = type]
       ELSE lastOp' = [Op("sendMessage", port, Len(m_devices), "NONE")
                         EXCEPT !.type = type,
                                !.sent = buildIOLinkMessage(type, payload)]
    /\ UNCHANGED <<m_devices, m_eventCallback, rx, clock, uptime, rcv, data,
                   present, hist>>
    /\ UNCHANGED codecVars

\* IOLinkDevice::supportsOperationMode, refusing SIO only
supportsOperationModeMut(mode) == mode # "SIO"
\* IOLinkDevice::supportsOperationMode
supportsOperationMode(mode) == mode = "COM2"
\* IOLinkDevice::getMinCycleTime
getMinCycleTime == 2
\* IOLinkDevice::readProcessData, writeProcessData, readParameter,
\* writeParameter, readDiagnostic: the arguments are not looked at.
readProcessData(buf) == "NOT_SUPPORTED"
writeProcessData(buf) == "NOT_SUPPORTED"
readParameter(index, subindex, buf) == "NOT_SUPPORTED"
writeParameter(index, subindex, buf) == "NOT_SUPPORTED"
readDiagnostic(buf) == "NOT_SUPPORTED"

\* (index, subindex) pairs the application asks for
ParamArgs == {<<0, 0>>, <<65535, 255>>}

\* The application calls a method of the device getDevice(port) gave it.
\* The read methods take the caller's buffer by reference and leave it alone.
deviceCall(port) ==
    /\ Idle
    /\ DeviceAt(m_devices, port) # NullDevice
    /\ \/ lastOp' = Op("readProcessData", port, Len(m_devices),
                       readProcessData(data))
       \/ lastOp' = Op("readDiagnostic", port, Len(m_devices),
                       readDiagnostic(data))
       \/ \E buf \in SendPayloads :
            lastOp' = Op("writeProcessData", port, Len(m_devices),
                         writeProcessData(buf))
       \/ \E arg \in ParamArgs :
            lastOp' = Op("readParameter", port, Len(m_devices),
                         readParameter(arg[1], arg[2], data))
       \/ \E arg \in ParamArgs, buf \in SendPayloads :
            lastOp' = Op("writeParameter", port, Len(m_devices),
                         writeParameter(arg[1], arg[2], buf))
       \/ \E mode \in OperationMode :
            lastOp' = [Op("supportsOperationMode", port, Len(m_devices), "NONE")
                         EXCEPT !.mode = mode,
                                !.flag = supportsOperationMode(mode)]
       \/ lastOp' = [Op("getMinCycleTime", port, Len(m_devices), "NONE")
                       EXCEPT !.value = getMinCycleTime]
    /\ UNCHANGED <<m_devices, m_eventCallback, rx, clock, uptime, rcv, data,
                   present, hist>>
    /\ UNCHANGED codecVars

\* (Milliseconds() - startTime) < timeout is false
TimedOutMut(now, startTime, timeout) == ~Lt32(now, Add32(startTime, timeout[2]))
TimedOut(now, startTime, timeout) == ~Lt32(Sub32(now, startTime), timeout)

\* The record receiveMessage leaves when it returns.
ReceiveReturn(result, type, rawData, nread) ==
    [Op("receiveMessage", rcv.port, Len(m_devices), result)
        EXCEPT !.type = type, !.nread = nread, !.raw = rawData,
               !.elapsed = uptime - rcv.startUp, !.timeout = rcv.timeout,
               \* polls: the loop iterations of a successful call that read
               !.polls = IF result = "NONE" THEN rcv.polls ELSE 0]

\* receiveMessage, entry: the port check, startTime = Milliseconds().
receiveCall(port, type, timeout) ==
    /\ Idle
    /\ IF PortOutOfRange(port, Len(m_devices))
       THEN /\ lastOp' = Op("receiveMessage", port, Len(m_devices),
                            "INVALID_PARAMETER")
            /\ rcv' = rcv
       ELSE /\ uptime + timeout[2] <= MaxUptime
            /\ rcv' = [pc |-> "loop", port |-> port, type |-> type,
                       timeout |-> timeout, startTime |-> clock,
                       startUp |-> uptime, rawData |-> <<>>, nread |-> 0,
                       polls |-> 0]
            /\ lastOp' = Op("receiveMessage", port, Len(m_devices), "PENDING")
    /\ UNCHANGED <<m_devices, m_eventCallback, rx, clock, uptime, data,
                   present, hist>>
    /\ UNCHANGED codecVars

\* receiveMessage, the while condition; return TIMEOUT when it is false.
receiveLoop ==
    /\ rcv.pc = "loop"
    /\ IF TimedOut(clock, rcv.startTime, rcv.timeout)
       THEN /\ lastOp' = ReceiveReturn("TIMEOUT", "PROCESS_DATA", <<>>, rcv.nread)
            /\ rcv' = IdleRcv
       ELSE /\ rcv' = [rcv EXCEPT !.pc = "poll"]
            /\ lastOp' = lastOp
    /\ UNCHANGED <<m_devices, m_eventCallback, rx, clock, uptime, data,
                   present, hist>>
    /\ UNCHANGED codecVars

\* receiveMessage, if (BytesAvailable() > 0): enter the read loop, or go
\* straight to delay(1).
receivePoll ==
    /\ rcv.pc = "poll"
    /\ rcv' = [rcv EXCEPT !.pc = IF Len(rx) > 0 THEN "read" ELSE "delay",
                          !.polls = IF Len(rx) > 0 THEN @ + 1 ELSE @]
    /\ UNCHANGED <<m_devices, m_eventCallback, rx, clock, uptime, data, lastOp,
                   present, hist>>
    /\ UNCHANGED codecVars

\* A rawData that is started afresh at every poll.
AccumulateMut(rawData, bytes) == bytes
\* rawData.push_back(ReadChar()) for every byte available: rawData is
\* declared outside the polling loop and keeps what earlier polls read.
Accumulate(rawData, bytes) == rawData \o bytes

\* receiveMessage, while (BytesAvailable() > 0) rawData.push_back(ReadChar()):
\* everything available is appended to rawData; the loop then looks again.
receiveRead ==
    /\ rcv.pc = "read"
    /\ Len(rx) > 0
    /\ rcv' = [rcv EXCEPT !.rawData = Accumulate(@, rx),
                          !.nread = @ + Len(rx)]
    /\ rx' = <<>>
    /\ UNCHANGED <<m_devices, m_eventCallback, clock, uptime, data, lastOp,
                   present, hist>>
    /\ UNCHANGED codecVars

\* result == ErrorCode::NONE && receivedType == type, with no regard to type
FrameMatchesMut(p, type) == p.result = "NONE"
\* result == ErrorCode::NONE && receivedType == type
FrameMatches(p, type) == p.result = "NONE" /\ p.type = type

\* receiveMessage, once nothing more is available: parse everything read so
\* far, return on a frame of the expected type, else go on to delay(1).
receiveParse ==
    /\ rcv.pc = "read"
    /\ Len(rx) = 0
    /\ LET p == parseIOLinkMessage(rcv.rawData)
       IN  IF FrameMatches(p, rcv.type)
           THEN /\ data' = p.payload
                /\ lastOp' = ReceiveReturn("NONE", rcv.type, rcv.rawData,
                                           rcv.nread)
                /\ rcv' = IdleRcv
           ELSE /\ rcv' = [rcv EXCEPT !.pc = "delay"]
                /\ UNCHANGED <<data, lastOp>>
    /\ UNCHANGED <<m_devices, m_eventCallback, rx, clock, uptime, present, hist>>
    /\ UNCHANGED codecVars

\* receiveMessage, delay(1): one millisecond passes.
receiveDelay ==
    /\ rcv.pc = "delay"
    /\ clock' = Add32(clock, 1)
    /\ uptime' = uptime + 1
    /\ rcv' = [rcv EXCEPT !.pc = "loop"]
    /\ UNCHANGED <<m_devices, m_eventCallback, rx, data, lastOp, present, hist>>
    /\ UNCHANGED codecVars

\* registerEventCallback: a callable or an empty std::function.
registerEventCallback(callback) ==
    /\ Idle
    /\ m_eventCallback' = callback
    /\ lastOp' = Op("registerEventCallback", 0, Len(m_devices), "NONE")
    /\ UNCHANGED <<m_devices, rx, clock, uptime, rcv, data, present, hist>>
    /\ UNCHANGED codecVars

\* The payloads pl for which raw begins with the encoding of (type, pl).
LeadingFrames(raw, type) ==
    {pl \in {SubSeq(raw, 4, 3 + n) : n \in 0..(Len(raw) - 4)} :
        SubSeq(raw, 1, Len(pl) + 4) = buildIOLinkMessage(type, pl)}

\* The bytes of an earlier read are the incomplete head of an event frame
\* that the bytes now available complete.
CompletesEvent(head, rest) ==
    /\ head # <<>> /\ rest # <<>>
    /\ LeadingFrames(head, "EVENT") = {}
    /\ LeadingFrames(head \o rest, "EVENT") # {}

\* result == ErrorCode::NONE && m_eventCallback, with no regard to the type
DispatchesMut(p, callback) == p.result = "NONE" /\ callback
\* result == ErrorCode::NONE && type == MessageType::EVENT && m_eventCallback
Dispatches(p, callback) == p.result = "NONE" /\ p.type = "EVENT" /\ callback

\* A read loop that stops after four bytes.
LeftUnreadMut(avail) == SubSeq(avail, 5, Len(avail))
\* What is still available after while (BytesAvailable() > 0) ReadChar().
LeftUnread(avail) == <<>>

\* processEvents: everything available is read into a local rawData and
\* parsed once; an event is handed to the callback with port 0.
processEvents ==
    /\ Idle
    /\ IF Len(rx) > 0
       THEN LET p == parseIOLinkMessage(rx)
            IN  /\ rx' = LeftUnread(rx)
                /\ lastOp' =
                     [Op("processEvents", 0, Len(m_devices), "NONE")
                        EXCEPT !.nread = Len(rx), !.raw = rx,
                               \* env: the call before this one was a
                               \* processEvents that read the head of an
                               \* event frame, and the rest has arrived
                               !.env = /\ lastOp.op = "processEvents"
                                       /\ CompletesEvent(lastOp.raw, rx),
                               !.cbs = IF Dispatches(p, m_eventCallback)
                                       THEN <<[port |-> 0,
                                               payload |-> p.payload]>>
                                       ELSE <<>>]
       ELSE /\ rx' = rx
            /\ lastOp' = Op("processEvents", 0, Len(m_devices), "NONE")
    /\ UNCHANGED <<m_devices, m_eventCallback, clock, uptime, rcv, data,
                   present, hist>>
    /\ UNCHANGED codecVars

\* SerialDriver receive side: a burst of bytes arrives from an attached device.
LineReceive ==
    /\ present # {}
    /\ \E chunk \in LineChunks :
          /\ Len(rcv.rawData) + Len(rx) + Len(chunk) <= MaxRx
          /\ rx' = rx \o chunk
    /\ UNCHANGED <<m_devices, m_eventCallback, clock, uptime, rcv, data,
                   lastOp, present, hist>>
    /\ UNCHANGED codecVars

\* Milliseconds() advances while receiveMessage executes.
Tick ==
    /\ rcv.pc # "idle"
    /\ uptime < MaxUptime
    /\ clock' = Add32(clock, 1)
    /\ uptime' = uptime + 1
    /\ UNCHANGED <<m_devices, m_eventCallback, rx, rcv, data, lastOp,
                   present, hist>>
    /\ UNCHANGED codecVars

\* A device is attached to or removed from a port between operations.
Replug ==
    /\ Idle
    /\ \E p \in Connectors :
          present' = IF p \in present THEN present \ {p} ELSE present \cup {p}
    /\ hist' = [hist EXCEPT !.setupChanged = TRUE]
    /\ UNCHANGED <<m_devices, m_eventCallback, rx, clock, uptime, rcv, data,
                   lastOp>>
    /\ UNCHANGED codecVars

\* IOLinkMaster::IOLinkMaster: empty registry, no callback.
Init ==
    /\ InitCodecIdle
    /\ m_devices = <<>>
    /\ m_eventCallback = FALSE
    /\ rx = <<>>
    /\ clock = NearWrap
    /\ uptime = 0
    /\ rcv = IdleRcv
    /\ data = <<>>
    /\ lastOp = Op("none", 0, 0, "NONE")
    /\ present \in SUBSET Connectors
    /\ hist = NoHist

Next ==
    \/ \E port \in Ports, mode \in ActivateModes : activatePort(port, mode)
    \/ \E port \in Ports : deactivatePort(port)
    \/ scanForDevices
    \/ \E port \in Ports : getDevice(port)
    \/ \E port \in Ports : deviceCall(port)
    \/ \E port \in Ports, type \in ExchangeTypes, payload \in SendPayloads :
          sendMessage(port, type, payload)
    \/ \E port \in Ports, type \in ExchangeTypes, timeout \in Timeouts :
          receiveCall(port, type, timeout)
    \/ receiveLoop
    \/ receivePoll
    \/ receiveRead
    \/ receiveParse
    \/ receiveDelay
    \/ \E callback \in BOOLEAN : registerEventCallback(callback)
    \/ processEvents
    \/ LineReceive
    \/ Tick
    \/ Replug

Spec == Init /\ [][Next]_vars


(***************************************************************************)
(* SpecLine: the master used for receiving only, on a line that carries    *)
(* whole frames back to back.  Time is accounted for where it is spent:    *)
(* delay(1) takes a millisecond, and so does each burst that comes in      *)
(* while the read loop of receiveMessage is running.                       *)
(***************************************************************************)

\* delay(1)
PollInterval == 1

\* SerialDriver receive side: a burst of bytes arrives from the device.
LineBurst ==
    /\ present # {}
    /\ \E chunk \in LineChunks :
          /\ Len(rcv.rawData) + Len(rx) + Len(chunk) <= MaxLine
          /\ rx' = rx \o chunk
    /\ UNCHANGED <<m_devices, m_eventCallback, clock, uptime, rcv, data,
                   lastOp, present, hist>>
    /\ UNCHANGED codecVars

\* The device keeps sending: by the time while (BytesAvailable() > 0) has
\* read what was there and looks again, a millisecond has gone by and the
\* next burst is in.
LineStream ==
    /\ present # {}
    /\ rcv.pc = "read" /\ Len(rx) = 0
    /\ \E chunk \in LineChunks :
          /\ Len(rcv.rawData) + Len(rx) + Len(chunk) <= MaxLine
          /\ rx' = rx \o chunk
    /\ clock' = Add32(clock, 1)
    /\ uptime' = uptime + 1
    /\ UNCHANGED <<m_devices, m_eventCallback, rcv, data, lastOp, present,
                   hist>>
    /\ UNCHANGED codecVars

NextLine ==
    \/ scanForDevices
    \/ \E port \in Ports, type \in ExchangeTypes, timeout \in Timeouts :
          receiveCall(port, type, timeout)
    \/ receiveLoop
    \/ receivePoll
    \/ receiveRead
    \/ receiveParse
    \/ receiveDelay
    \/ LineBurst
    \/ LineStream

SpecLine == Init /\ [][NextLine]_vars

(***************************************************************************)
(* Claims about the frame codec, checked under SpecCodec.                  *)
(***************************************************************************)

\* C1: round trip - decoding the bytes produced by encoding a (type, payload)
\* with payload length 0..255 succeeds and returns the same type and the
\* same payload.
C1_RoundTrip ==
    (cpc = "parsed" /\ tamper.kind = "none" /\ Len(cPayload) <= MaxPayloadLen)
        => /\ parsed.result = "NONE"
           /\ parsed.type = cType
           /\ parsed.payload = cPayload

C1_Witness ==
    /\ cpc = "parsed" /\ tamper.kind = "none"
    /\ cType = "EVENT" /\ Len(cPayload) = MaxPayloadLen
    /\ parsed.result = "NONE" /\ parsed.payload = cPayload

\* C2: checksum sensitivity - a single bit flipped in the START, TYPE or
\* LENGTH byte or in a payload byte of an encoded frame (the checksum byte
\* excluded) makes decode fail with CommunicationError.
C2_ChecksumSensitivity ==
    (cpc = "parsed" /\ tamper.kind = "flip" /\ tamper.idx < Len(frame))
        => parsed.result = "COMMUNICATION_ERROR"

\* C6: the encoded frame is START(0xA5), the TYPE code, LENGTH = payload
\* length, the payload in order and one checksum byte, the XOR of all the
\* bytes before it; encode(ProcessData, [0x12,0x34]) is A5 01 02 12 34 80.
C6_TypeCode ==
    [PROCESS_DATA |-> 1, PARAMETER |-> 2, DIAGNOSTIC |-> 3, EVENT |-> 4]

C6_EncodingFormat ==
    (cpc = "built" /\ tamper.kind = "none")
        => /\ Len(frame) = Len(cPayload) + 4
           /\ frame[1] = 165
           /\ frame[2] = C6_TypeCode[cType]
           /\ frame[3] = Len(cPayload)
           /\ \A i \in 1..Len(cPayload) : frame[3 + i] = cPayload[i]
           /\ frame[Len(frame)] = XorRange(frame, 1, Len(frame) - 1)
           /\ (cType = "PROCESS_DATA" /\ cPayload = <<18, 52>>)
                 => frame = <<165, 1, 2, 18, 52, 128>>
           /\ (cType = "EVENT" /\ cPayload = <<>>)
                 => frame = <<165, 4, 0, 161>>

C6_Witness ==
    /\ cpc = "built" /\ tamper.kind = "none"
    /\ cType = "PROCESS_DATA" /\ cPayload = <<18, 52>>
    /\ frame = <<165, 1, 2, 18, 52, 128>>

\* C7: decode returns CommunicationError, and reads no position past the end
\* of its input, for every input shorter than 4 bytes, every input whose
\* TYPE byte is not 0x01..0x04 and every input whose declared LENGTH exceeds
\* the bytes present (size < LENGTH + 4).
C7_Malformed(raw) ==
    \/ Len(raw) < 4
    \/ raw[2] \notin 1..4
    \/ Len(raw) < raw[3] + 4

C7_DecodeRejects ==
    (cpc \in {"parsed", "rawparsed"})
        => /\ parsed.last <= Len(frame)
           /\ C7_Malformed(frame) => parsed.result = "COMMUNICATION_ERROR"

C7_Witness ==
    /\ cpc = "rawparsed"
    /\ Len(frame) >= 4 /\ frame[1] = START_BYTE /\ frame[2] \in 1..4
    /\ Len(frame) < frame[3] + 4
    /\ parsed.result = "COMMUNICATION_ERROR" /\ parsed.last = 3

\* C15  decode accepts a byte sequence only if its checksum validates and
\* its size is exactly LENGTH + 4: a valid frame followed by further bytes is
\* not accepted.
C15_ExactLength ==
    (cpc \in {"parsed", "rawparsed"} /\ parsed.result = "NONE")
        => /\ Len(frame) = frame[3] + 4
           /\ frame[Len(frame)] = XorFold(0, SubSeq(frame, 1, Len(frame) - 1))

(***************************************************************************)
(* Claims about the master, checked under Spec.                            *)
(***************************************************************************)

\* C3: timeout floor - a receiveMessage call on a valid port that reads no
\* valid frame of the expected type returns TIMEOUT, and it returns TIMEOUT
\* only when at least its timeout has elapsed since the call started, also
\* when the millisecond counter has wrapped around meanwhile.
C3_Returned ==
    /\ lastOp.op = "receiveMessage"
    /\ lastOp.result \notin {"PENDING", "INVALID_PARAMETER"}

C3_TimeoutFloor ==
    C3_Returned
        => /\ lastOp.result \in {"NONE", "TIMEOUT"}
           /\ lastOp.result = "TIMEOUT"
                 => ~Lt32(U32(lastOp.elapsed), lastOp.timeout)
           /\ lastOp.result = "NONE"
                 => /\ parseIOLinkMessage(lastOp.raw).result = "NONE"
                    /\ parseIOLinkMessage(lastOp.raw).type = lastOp.type

C3_Witness ==
    /\ lastOp.op = "receiveMessage" /\ lastOp.result = "TIMEOUT"
    /\ lastOp.timeout = U32(MaxTimeout)
    /\ lastOp.elapsed >= MaxTimeout
    /\ lastOp.nread > 0
    /\ Lt32(clock, NearWrap)

\* C4: port bounds - activatePort, deactivatePort, sendMessage and
\* receiveMessage called with an index >= the number of configured ports
\* (m_devices.size()) return INVALID_PARAMETER, send no byte and read none.
C4_PortOps == {"activatePort", "deactivatePort", "sendMessage", "receiveMessage"}

C4_PortBounds ==
    (lastOp.op \in C4_PortOps /\ lastOp.port >= lastOp.size)
        => /\ lastOp.result = "INVALID_PARAMETER"
           /\ lastOp.sent = <<>>
           /\ lastOp.nread = 0
           /\ rcv.pc = "idle"

C4_Witness ==
    /\ lastOp.op = "sendMessage" /\ lastOp.port = 1 /\ lastOp.size = 1
    /\ lastOp.result = "INVALID_PARAMETER" /\ lastOp.sent = <<>>

\* C5: scan idempotence - a second scanForDevices with the physical setup
\* unchanged since the scan before leaves a registry equivalent to the one
\* that scan left: as many entries, the same identifiers on every port.
C5_Equivalent(a, b) ==
    /\ Len(a) = Len(b)
    /\ \A i \in 1..Len(a) : /\ a[i].vendorId = b[i].vendorId
                            /\ a[i].productId = b[i].productId

C5_ScanIdempotent ==
    (lastOp.op = "scanForDevices" /\ lastOp.env)
        => /\ m_devices = hist.lastReg
           /\ C5_Equivalent(hist.lastReg, hist.prevReg)

C5_Witness ==
    /\ lastOp.op = "scanForDevices" /\ lastOp.env
    /\ hist.scans = 2
    /\ Len(hist.prevReg) = 1 /\ Len(m_devices) = 1

\* C8: activating a valid port to which no device ever responds does not
\* report success, and getDevice for that port is empty afterwards.
C8_NoDeviceActivation ==
    (/\ lastOp.op = "activatePort" /\ lastOp.port < lastOp.size
     /\ lastOp.env /\ present = {} /\ rx = <<>>)
        => /\ lastOp.result # "NONE"
           /\ DeviceAt(m_devices, lastOp.port) = NullDevice

\* C9: no fabricated devices - getDevice(port) returns a Device only if a
\* valid identification response from that port was received during the
\* latest scan or activation.
C9_NoFabricatedDevice ==
    (lastOp.op = "getDevice" /\ lastOp.dev # NullDevice)
        => lastOp.port \in hist.identified

\* C10: channel gating - after a successful deactivatePort on a port, no
\* sendMessage of a process-data, parameter or diagnostic frame on that port
\* transmits a byte until a later activation of the port has succeeded.
C10_ChannelGating ==
    (/\ lastOp.op = "sendMessage" /\ lastOp.type # "EVENT"
     /\ lastOp.port \in hist.deactivated)
        => lastOp.sent = <<>>


\* C13  One processEvents call invokes the registered callback at most once:
\* exactly once, with the port the line belongs to and the frame's payload,
\* when the bytes it read decode to a checksum-valid EVENT frame, and not at
\* all when they decode to another type, fail to decode, or nothing was read.
C13_EventDispatch ==
    lastOp.op = "processEvents" =>
        /\ Len(lastOp.cbs) <= 1
        /\ lastOp.nread = Len(lastOp.raw)
        /\ \A pl \in LeadingFrames(lastOp.raw, "EVENT") :
              m_eventCallback =>
                  lastOp.cbs = <<[port |-> CHOOSE c \in Connectors : TRUE,
                                  payload |-> pl]>>
        /\ LeadingFrames(lastOp.raw, "EVENT") = {} => lastOp.cbs = <<>>
        /\ ~m_eventCallback => lastOp.cbs = <<>>

C13_Witness ==
    /\ lastOp.op = "processEvents"
    /\ lastOp.raw = EventFrame
    /\ lastOp.cbs = <<[port |-> 0, payload |-> <<18>>]>>


\* C14  A base IOLinkDevice answers NOT_SUPPORTED to read and write of process
\* data, read and write of a parameter and read of diagnostics, whatever the
\* arguments; it supports COM2 and no other operation mode; its minimum cycle
\* time is 2.
C14_DataMethods == {"readProcessData", "writeProcessData", "readParameter",
                    "writeParameter", "readDiagnostic"}

C14_DeviceDefaults ==
    /\ lastOp.op \in C14_DataMethods => lastOp.result = "NOT_SUPPORTED"
    /\ lastOp.op = "supportsOperationMode" =>
          (lastOp.flag <=> lastOp.mode = "COM2")
    /\ lastOp.op = "getMinCycleTime" => lastOp.value = 2

C14_Witness ==
    /\ lastOp.op = "supportsOperationMode"
    /\ lastOp.mode = "COM3" /\ ~lastOp.flag
    /\ DeviceAt(m_devices, lastOp.port) = DummyDevice

\* C16  A port has a Device only if it is Operational or later in its
\* lifecycle, which it can only be once a valid identification response from
\* it was received: no Inactive, WakingUp or Identifying port has a Device.
C16_DeviceOnlyIfIdentified ==
    \A port \in Ports :
        DeviceAt(m_devices, port) # NullDevice => port \in hist.identified

\* C17  receiveMessage returns NONE only when the bytes it read during the
\* call begin with a checksum-valid frame of the expected type, and the
\* payload handed back is that frame's; the caller's payload changes in no
\* other step, so a call that ends in TIMEOUT or INVALID_PARAMETER leaves it
\* as it was.
C17_ReceiveSoundness ==
    /\ [](lastOp.op = "receiveMessage" /\ lastOp.result = "NONE"
            => /\ lastOp.nread = Len(lastOp.raw)
               /\ data \in LeadingFrames(lastOp.raw, lastOp.type))
    /\ [][data' # data => /\ rcv.pc # "idle"
                          /\ lastOp'.op = "receiveMessage"
                          /\ lastOp'.result = "NONE"]_vars

C17_Witness ==
    /\ lastOp.op = "receiveMessage" /\ lastOp.result = "TIMEOUT"
    /\ lastOp.nread > 0
    /\ data = <<18>>

\* C18  A processEvents call that finds only the head of an event frame
\* invokes no callback; when processEvents is called again after the rest of
\* the frame has arrived, the event is handed to the registered callback.
C18_PartialEventKept ==
    /\ (lastOp.op = "processEvents" /\ LeadingFrames(lastOp.raw, "EVENT") = {})
          => lastOp.cbs = <<>>
    /\ (lastOp.op = "processEvents" /\ lastOp.env /\ m_eventCallback)
          => Len(lastOp.cbs) = 1

\* C19  Every activatePort on a valid port transmits ten bytes of value 0x00
\* before any other byte, and reads nothing before they are out.
C19_WakeupFirst ==
    (lastOp.op = "activatePort" /\ lastOp.port < lastOp.size)
        => /\ Len(lastOp.sent) >= 10
           /\ \A i \in 1..10 : lastOp.sent[i] = 0
           /\ lastOp.nread = 0

C19_Witness ==
    /\ lastOp.op = "activatePort" /\ lastOp.port < lastOp.size
    /\ lastOp.result = "NONE"
    /\ Len(lastOp.sent) = 10

\* C20  Activation restarts the port from any state: after activatePort on a
\* valid port the port's Device record is the result of the identification
\* that activation ran, not a record kept from before.
C20_ActivationResets ==
    (lastOp.op = "activatePort" /\ lastOp.result = "NONE")
        => \/ DeviceAt(m_devices, lastOp.port) = NullDevice
           \/ lastOp.port \in hist.identified


\* C21  deactivatePort returns NONE for every port below the registry size,
\* whatever was done to the port before (never activated, activated,
\* deactivated already), INVALID_PARAMETER for every other index, and in
\* neither case sends or reads a byte.
C21_DeactivationNeverErrors ==
    /\ [](lastOp.op = "deactivatePort" =>
            /\ lastOp.port < lastOp.size => lastOp.result = "NONE"
            /\ lastOp.port >= lastOp.size =>
                  lastOp.result = "INVALID_PARAMETER"
            /\ lastOp.sent = <<>> /\ lastOp.nread = 0)
    /\ [][deactivatePort(lastOp'.port) => rx' = rx]_vars

C21_Witness ==
    /\ lastOp.op = "deactivatePort" /\ lastOp.result = "NONE"
    /\ lastOp.env
    /\ rx # <<>>

\* The port indices that activatePort, deactivatePort, sendMessage and
\* receiveMessage do not reject with INVALID_PARAMETER.
C22_ValidPorts(devices) ==
    {port \in Ports : ~PortOutOfRange(port, Len(devices))}

\* C22  The set of valid port indices is fixed at construction: no step
\* changes which indices the port operations reject, however many scans have
\* run and however many devices they found.
C22_FixedPortSet ==
    [][C22_ValidPorts(m_devices') = C22_ValidPorts(m_devices)]_vars

\* C23  The registry is changed by scanForDevices only: every step of
\* getDevice, sendMessage, receiveMessage, registerEventCallback and
\* processEvents, whatever it returns, leaves the Device records and their
\* identifiers as they were.
C23_RegistryFrame ==
    [][m_devices' # m_devices => scanForDevices]_vars

C23_Witness ==
    /\ lastOp.op = "receiveMessage" /\ lastOp.result = "NONE"
    /\ m_eventCallback
    /\ m_devices = <<DummyDevice>>

\* C24  Within one receiveMessage call the bytes read in successive polls are
\* accumulated: rawData is all that was read so far, and the call does not go
\* on polling once rawData begins with a valid frame of the expected type, so
\* a frame that arrives split over several polls is returned as soon as its
\* last byte has been read.
C24_FragmentReassembly ==
    /\ rcv.pc # "idle" => Len(rcv.rawData) = rcv.nread
    /\ rcv.pc \in {"delay", "loop", "poll"} =>
          LeadingFrames(rcv.rawData, rcv.type) = {}
    /\ (lastOp.op = "receiveMessage" /\ lastOp.polls > 1) =>
          /\ lastOp.result = "NONE"
          /\ LeadingFrames(lastOp.raw, lastOp.type) # {}

C24_Witness ==
    /\ lastOp.op = "receiveMessage" /\ lastOp.result = "NONE"
    /\ lastOp.polls = 2
    /\ lastOp.type = "EVENT" /\ lastOp.raw = EventFrame
    /\ data = <<18>>

\* C25  processEvents, called with bytes available, reads every one of them
\* before decoding and keeps none: after the call nothing is available and
\* no buffer of the master holds a byte, whether or not a frame was decoded
\* or the callback invoked, so a later processEvents or receiveMessage call
\* starts from what arrives after it.
C25_DispatchDrains ==
    /\ [](Idle => rcv.rawData = <<>>)
    /\ [][processEvents => /\ rx' = <<>>
                           /\ lastOp'.raw = rx /\ lastOp'.nread = Len(rx)
                           /\ rcv'.rawData = <<>>]_vars

C25_Witness ==
    /\ lastOp.op = "processEvents"
    /\ lastOp.raw = EventFrame /\ lastOp.cbs = <<>>
    /\ rx = <<>>

(***************************************************************************)
(* Claims about receiving on a busy line, checked under SpecLine.          *)
(***************************************************************************)

\* A complete frame by its own LENGTH byte that is not a valid frame of the
\* expected type: its type is another one or its checksum fails.
C11_Discarded(f, type) ==
    /\ Len(f) >= 4 /\ f[1] = START_BYTE /\ Len(f) = f[3] + 4
    /\ LeadingFrames(f, type) = {}

\* C11  Within one receiveMessage call a frame of an unexpected type or with
\* a failing checksum is discarded, not buffered: once a complete valid frame
\* of the expected type has been read after it, before the timeout, the call
\* returns that frame and does not go on polling.
C11_DiscardAndContinue ==
    rcv.pc = "delay" =>
        \A k \in 4..Len(rcv.rawData) :
            ~ /\ C11_Discarded(SubSeq(rcv.rawData, 1, k), rcv.type)
              /\ LeadingFrames(SubSeq(rcv.rawData, k + 1, Len(rcv.rawData)),
                               rcv.type) # {}

\* C12  Every receiveMessage call is over no later than its timeout plus one
\* poll interval after it started, whatever the line delivers.
C12_ReturnsInTime ==
    /\ rcv.pc # "idle" =>
          uptime - rcv.startUp <= rcv.timeout[2] + PollInterval
    /\ (lastOp.op = "receiveMessage" /\ lastOp.port < lastOp.size) =>
          lastOp.elapsed <= lastOp.timeout[2] + PollInterval

=============================================================================
